---------------------------- MODULE Spec2Model ----------------------------
(***************************************************************************)
(* State-machine model of MinecraftServerMonitor.py: the SQLite store      *)
(* (tables servers and stats), the construction of WindowsInput and its    *)
(* input thread, the command queue, the command interpreter and the        *)
(* scheduler loop MCMonitor.run.                                           *)
(*                                                                         *)
(* Time is the local wall clock in seconds since the local midnight of     *)
(* day 0, as datetime.now() reads it; time.time() differs from it by a     *)
(* constant, and SQLite's 'now' and CURRENT_TIMESTAMP are the same instant *)
(* in UTC, utc_offset seconds less.  The rows of stats carry UTC stamps.   *)
(* A status query takes seconds, the other statements no full second.      *)
(* Command lines are sequences of one-character strings, so that split()   *)
(* and startswith() are computed as Python computes them.  SQLite is the   *)
(* library Python ships: foreign keys are not enforced unless PRAGMA       *)
(* foreign_keys = ON is run, UNIQUE is always enforced, AUTOINCREMENT      *)
(* never reuses an id, a SELECT without ORDER BY scans in rowid order and  *)
(* ORDER BY leaves equal keys in rowid order.                              *)
(***************************************************************************)
EXTENDS Integers, Sequences, FiniteSets, TLC

VARIABLES
    servers,       \* table servers in rowid order: <<[id, name, ip], ...>>
    nextId,        \* the id AUTOINCREMENT gives to the next servers row
    stats,         \* table stats in rowid order: <<[server_id, online, ts], ...>>, ts in UTC
    never_delete,  \* CONFIG['never_delete_data']
    running,       \* MCMonitor.running
    cmd_queue,     \* WindowsInput.cmd_queue
    pc,            \* position of MCMonitor.run inside its loop
    clock,         \* local wall clock, seconds
    last_collect,  \* run(): last_collect
    last_report,   \* run(): last_report (assigned, never read)
    last_clean,    \* run(): last_clean
    round,         \* the poll round of collect_data in progress or last completed
    out,           \* what the last step printed or rendered
    removed,       \* history: names removed by remove_server and not added since
    typed,         \* history: lines the input thread has queued so far
    reported_day,  \* history: calendar day of the latest scheduled report, -1 if none
    checked_hour,  \* history: clock hour of the latest anomaly detection, -1 if none
    buffer,        \* WindowsInput.buffer: the characters of the line being typed
    input_thread,  \* WindowsInput.input_thread: "unstarted", "alive" or "dead"
    started,       \* history: the clock when run() entered its loop
    utc_offset,    \* local time minus UTC, seconds (the time zone of the machine)
    current_cmd    \* _process_input: cmd, the command taken and not yet executed

vars == <<servers, nextId, stats, never_delete, running, cmd_queue, pc, clock,
          last_collect, last_report, last_clean, round, out, removed,
          typed, reported_day, checked_hour, buffer, input_thread, started,
          utc_offset, current_cmd>>

---------------------------------------------------------------------------
(* Bounds of the model *)

\* command lines typed during a run
MaxTyped == 2
\* rows of the stats tables a cleanup is tried on
MaxStats == 2
\* largest id AUTOINCREMENT hands out: past it the status check of add fails
MaxServerId == 2
\* instants of Timeline the clock may take
MaxStep == 3
\* command lines queued when a tick begins
MaxQueued == 2
\* characters of a line being typed
MaxBuffer == 3

(* Program constants *)

\* CONFIG["interval"], seconds
interval == 300
\* now.hour == 8
ReportHour == 8
\* now.minute < 5
ReportMinutes == 5
\* (now - last_clean).days >= 7
CleanDays == 7
\* datetime('now', '-30 days')
RetainDays == 30
\* LIMIT 6
HistoryLimit == 6
\* len(data) < 3
MinHistory == 3

Day == 24 * 3600

At(d, h, m) == d * Day + h * 3600 + m * 60

\* The instants to which the clock moves while the loop sleeps, in order.  Two
\* ticks may observe the same instant (a tick without a status query lasts
\* 0.1 s).
Timeline == << At(0, 7, 55), At(0, 8, 0), At(31, 8, 0), At(31, 8, 5), At(38, 9, 0),
               At(39, 9, 0), At(70, 9, 0) >>

Instants == { Timeline[i] : i \in 1..MaxStep }

hour(t)   == (t \div 3600) % 24
minute(t) == (t \div 60) % 60
HourIndex(t) == t \div 3600

\* the calendar day of an instant: of a local one with datetime.now(), of a
\* UTC one with strftime('%Y-%m-%d', timestamp)
date(t)   == t \div Day

\* the UTC instant of the local instant t: time.time(), SQLite's 'now' and
\* CURRENT_TIMESTAMP for datetime.now()
utc(t) == t - utc_offset

\* local time minus UTC, seconds: New York in summer, UTC, Shanghai
Offsets == { 0 - 4 * 3600, 0, 8 * 3600 }

\* the offset of the runs that do not draw it
HomeOffset == 8 * 3600

\* Julian days passed at 00:00 UTC of day 0, less the half: day 0 is
\* 1 June 2026, Julian day 2461192.5
JulianDay0 == 2461192

---------------------------------------------------------------------------
(* Strings: a string is a sequence of one-character strings.  The characters
   are those of Latin-1. *)

startswith(s, p) == Len(s) >= Len(p) /\ SubSeq(s, 1, Len(p)) = p

\* str.isspace(): tab, line feed, vertical tab, form feed, carriage return,
\* the separators 1C to 1F, space, next line (85) and no-break space (A0)
Whitespace == { "\t", "\n", "", "\f", "\r", "", "", "", "", " ", "", " " }

RECURSIVE SplitFrom(_, _, _)
SplitFrom(s, cur, acc) ==
    IF s = <<>> THEN (IF cur = <<>> THEN acc ELSE Append(acc, cur))
    ELSE IF Head(s) \in Whitespace
         THEN SplitFrom(Tail(s), <<>>, IF cur = <<>> THEN acc ELSE Append(acc, cur))
         ELSE SplitFrom(Tail(s), Append(cur, Head(s)), acc)

\* str.split(): the maximal runs of characters that are not whitespace
split(s) == SplitFrom(s, <<>>, <<>>)

RECURSIVE JoinWith(_, _)
JoinWith(words, sep) ==
    IF words = <<>> THEN <<>>
    ELSE IF Len(words) = 1 THEN words[1]
    ELSE words[1] \o sep \o JoinWith(Tail(words), sep)

RECURSIVE TrimLeft(_, _)
TrimLeft(s, blank) == IF s # <<>> /\ Head(s) \in blank THEN TrimLeft(Tail(s), blank) ELSE s

RECURSIVE TrimRight(_, _)
TrimRight(s, blank) ==
    IF s # <<>> /\ s[Len(s)] \in blank THEN TrimRight(SubSeq(s, 1, Len(s) - 1), blank) ELSE s

lstrip(s) == TrimLeft(s, Whitespace)

rstrip(s) == TrimRight(s, Whitespace)

strip(s) == rstrip(lstrip(s))

\* the characters str.lower() changes, and what it makes of them
Upper == <<"A","B","C","D","E","F","G","H","I","J","K","L","M",
           "N","O","P","Q","R","S","T","U","V","W","X","Y","Z",
           "À","Á","Â","Ã","Ä","Å","Æ","Ç","È","É",
           "Ê","Ë","Ì","Í","Î","Ï","Ð","Ñ","Ò","Ó",
           "Ô","Õ","Ö","Ø","Ù","Ú","Û","Ü","Ý","Þ">>
Lower == <<"a","b","c","d","e","f","g","h","i","j","k","l","m",
           "n","o","p","q","r","s","t","u","v","w","x","y","z",
           "à","á","â","ã","ä","å","æ","ç","è","é",
           "ê","ë","ì","í","î","ï","ð","ñ","ò","ó",
           "ô","õ","ö","ø","ù","ú","û","ü","ý","þ">>

lowerChar(c) ==
    IF \E i \in 1..Len(Upper) : Upper[i] = c
    THEN Lower[CHOOSE i \in 1..Len(Upper) : Upper[i] = c]
    ELSE c

lower(s) == [i \in 1..Len(s) |-> lowerChar(s[i])]

Digits == <<"0","1","2","3","4","5","6","7","8","9">>

IsDigit(c) == \E i \in 1..10 : Digits[i] = c
DigitVal(c) == (CHOOSE i \in 1..10 : Digits[i] = c) - 1

\* the value of the digits of s; the underscores between them are skipped
RECURSIVE DigitsVal(_, _)
DigitsVal(s, acc) ==
    IF s = <<>> THEN acc
    ELSE IF Head(s) = "_" THEN DigitsVal(Tail(s), acc)
    ELSE DigitsVal(Tail(s), 10 * acc + DigitVal(Head(s)))

\* s without the sign int() accepts in front of the digits
Unsigned(s) == IF s # <<>> /\ Head(s) \in {"+", "-"} THEN Tail(s) ELSE s

\* digits, with single underscores allowed between two digits
IsNumeral(d) ==
    /\ d # <<>>
    /\ IsDigit(d[1]) /\ IsDigit(d[Len(d)])
    /\ \A i \in 1..Len(d) : IsDigit(d[i]) \/ d[i] = "_"
    /\ \A i \in 1..(Len(d) - 1) : ~(d[i] = "_" /\ d[i + 1] = "_")

\* the whitespace int() skips around the numeral: str.isspace() without the
\* separators 1C to 1F
IntSpace == Whitespace \ { "", "", "", "" }

Numeral(s) == Unsigned(TrimRight(TrimLeft(s, IntSpace), IntSpace))

\* int(s) raises ValueError unless s is, between whitespace, an optional sign
\* and a numeral
IsInt(s) == IsNumeral(Numeral(s))

int(s) == IF Head(TrimLeft(s, IntSpace)) = "-" THEN 0 - DigitsVal(Numeral(s), 0)
          ELSE DigitsVal(Numeral(s), 0)

\* The command words and arguments the keyboard produces
W_exit   == <<"e","x","i","t">>
W_help   == <<"h","e","l","p">>
W_now    == <<"n","o","w">>
W_list   == <<"l","i","s","t">>
W_add    == <<"a","d","d">>
W_remove == <<"r","e","m","o","v","e">>
W_delete == <<"d","e","l","e","t","e">>
W_report == <<"r","e","p","o","r","t">>
W_trend  == <<"t","r","e","n","d">>
W_config == <<"c","o","n","f","i","g">>

Line(words) == JoinWith(words, <<" ">>)


---------------------------------------------------------------------------
(* The store: tables servers and stats, and the queries the program runs *)

\* Python's None for an id: AUTOINCREMENT ids start at 1
None == 0

RECURSIVE Sum(_)
Sum(s) == IF s = <<>> THEN 0 ELSE Head(s) + Sum(Tail(s))

RECURSIVE Max(_)
Max(s) == IF Len(s) = 1 THEN s[1]
          ELSE LET m == Max(Tail(s)) IN IF s[1] > m THEN s[1] ELSE m

Onlines(rows) == [i \in 1..Len(rows) |-> rows[i].online]

\* SELECT name, ip FROM servers
load_servers(srv) == [i \in 1..Len(srv) |-> [name |-> srv[i].name, ip |-> srv[i].ip]]

ServerNames(srv) == { srv[i].name : i \in 1..Len(srv) }
ServerIds(srv)   == { srv[i].id : i \in 1..Len(srv) }

\* SELECT id FROM servers WHERE name = ?
get_server_id(srv, name) ==
    IF \E i \in 1..Len(srv) : srv[i].name = name
    THEN srv[CHOOSE i \in 1..Len(srv) : srv[i].name = name].id
    ELSE None

\* IntegrityError with a fault: ip is not declared UNIQUE
IntegrityError_name_only(srv, name, ip) ==
    \E i \in 1..Len(srv) : srv[i].name = name

\* name TEXT UNIQUE, ip TEXT UNIQUE: the INSERT raises sqlite3.IntegrityError
IntegrityError(srv, name, ip) ==
    \E i \in 1..Len(srv) : srv[i].name = name \/ srv[i].ip = ip

\* INSERT INTO servers (name, ip) VALUES (?, ?)
insert_server(srv, id, name, ip) == Append(srv, [id |-> id, name |-> name, ip |-> ip])

\* delete_server_row with a fault: the DELETE matches the ip column
delete_server_row_by_ip(srv, name) == SelectSeq(srv, LAMBDA r : r.ip # name)

\* DELETE FROM servers WHERE name = ?
delete_server_row(srv, name) == SelectSeq(srv, LAMBDA r : r.name # name)

\* The stats table after DELETE FROM servers WHERE name = ?.  The connection
\* never runs PRAGMA foreign_keys = ON, so SQLite does not enforce the
\* ON DELETE CASCADE of stats.server_id: the rows stay.
stats_after_remove(st, srv, name) == st

\* DELETE FROM stats WHERE server_id = ?
delete_stats_of(st, id) == SelectSeq(st, LAMBDA s : s.server_id # id)

\* INSERT INTO stats (server_id, online) VALUES (?, ?), timestamp
\* CURRENT_TIMESTAMP: now is the UTC instant of the INSERT
insert_stat(st, id, online, now) ==
    Append(st, [server_id |-> id, online |-> online, ts |-> now])

\* FROM stats JOIN servers ON servers.id = stats.server_id WHERE servers.name = ?
JoinByName(srv, st, name) ==
    SelectSeq(st, LAMBDA s : \E i \in 1..Len(srv) :
                                srv[i].id = s.server_id /\ srv[i].name = name)

\* datetime('now', '-{days} days') is a date: a negative days gives the modifier
\* '--N days', and a days that leads before Julian day 0 (noon of 24 November
\* -4713) leaves SQLite's range; datetime() is NULL then.  now is UTC.
InRange(now, days) ==
    days >= 0 /\ days <= JulianDay0 + (now + Day \div 2) \div Day

\* timestamp > datetime('now', '-{days} days'), both UTC: no row compares
\* greater than NULL
InWindow(ts, now, days) == InRange(now, days) /\ (now - ts) \div Day < days

WindowSamples(srv, st, name, now, days) ==
    SelectSeq(JoinByName(srv, st, name), LAMBDA s : InWindow(s.ts, now, days))

\* ORDER BY timestamp: rows by ascending timestamp, equal timestamps in rowid order
RECURSIVE SortByTs(_)
SortByTs(rows) ==
    IF rows = <<>> THEN <<>>
    ELSE LET k == CHOOSE i \in 1..Len(rows) :
                    /\ \A j \in 1..Len(rows) : rows[i].ts <= rows[j].ts
                    /\ \A j \in 1..(i - 1) : rows[j].ts > rows[i].ts
         IN <<rows[k]>> \o SortByTs(SubSeq(rows, 1, k - 1) \o SubSeq(rows, k + 1, Len(rows)))

\* ORDER BY timestamp DESC: rows by descending timestamp, equal timestamps in
\* rowid order
RECURSIVE SortByTsDesc(_)
SortByTsDesc(rows) ==
    IF rows = <<>> THEN <<>>
    ELSE LET k == CHOOSE i \in 1..Len(rows) :
                    /\ \A j \in 1..Len(rows) : rows[i].ts >= rows[j].ts
                    /\ \A j \in 1..(i - 1) : rows[j].ts < rows[i].ts
         IN <<rows[k]>> \o SortByTsDesc(SubSeq(rows, 1, k - 1) \o SubSeq(rows, k + 1, Len(rows)))

FirstN(s, n) == SubSeq(s, 1, IF Len(s) < n THEN Len(s) ELSE n)

\* SELECT online ... ORDER BY timestamp DESC LIMIT 6
recent_online(srv, st, name) ==
    Onlines(FirstN(SortByTsDesc(JoinByName(srv, st, name)), HistoryLimit))

\* SELECT MAX(online), AVG(online), COUNT(DISTINCT strftime('%Y-%m-%d', timestamp)):
\* MAX and AVG are NULL over no rows; AVG is kept as the fraction sum / n; the
\* days are those of the UTC timestamps
aggregate(srv, st, name, now, days) ==
    LET rows == WindowSamples(srv, st, name, now, days) IN
    [ peak |-> [null |-> rows = <<>>,
                val  |-> IF rows = <<>> THEN 0 ELSE Max(Onlines(rows))],
      avg  |-> [null |-> rows = <<>>, sum |-> Sum(Onlines(rows)), n |-> Len(rows)],
      days |-> Cardinality({ date(rows[i].ts) : i \in 1..Len(rows) }) ]

\* 2^k mod 5
Pow2Mod5(k) == <<1, 2, 4, 3>>[(k % 4) + 1]

RECURSIVE BitLength(_)
BitLength(a) == IF a = 0 THEN 0 ELSE 1 + BitLength(a \div 2)

\* the bits of m/5 before the binary point; 0, -1, -2 when its first 1 bit is
\* the first, second, third after the point
IntBits(m) ==
    IF m >= 5 THEN BitLength(m \div 5)
    ELSE IF m >= 3 THEN 0 ELSE IF m = 2 THEN 0 - 1 ELSE 0 - 2

\* whether the double nearest to m/20 is above m/20, for m no multiple of 5:
\* a double has 53 significant bits, so m/5 is cut after 53 - IntBits(m) bits
\* of its fraction, and what is cut off is (2^(53 - IntBits(m)) m mod 5) / 5
DoubleIsAbove(m) == (Pow2Mod5(53 - IntBits(m)) * (m % 5)) % 5 >= 3

\* round(x, 1), in tenths, of the double x nearest to sum / n (AVG divides in
\* doubles): to the nearest tenth of x.  When sum / n is half-way, m / 20 with
\* m odd, x is m / 20 itself if 5 divides m and the even tenth is taken;
\* otherwise x is a little above or below and that decides.
round1(sum, n) ==
    LET q == (10 * sum) \div n
        r == (10 * sum) % n
        m == 2 * q + 1
    IN IF 2 * r < n THEN q
       ELSE IF 2 * r > n THEN q + 1
       ELSE IF m % 5 = 0 THEN (IF q % 2 = 0 THEN q ELSE q + 1)
       ELSE IF DoubleIsAbove(m) THEN q + 1 ELSE q

\* data[0] or 'N/A'
show_peak(peak) ==
    IF peak.null \/ peak.val = 0 THEN [na |-> TRUE, val |-> 0]
    ELSE [na |-> FALSE, val |-> peak.val]

\* round(data[1], 1) if data[1] else 'N/A'
show_avg(avg) ==
    IF avg.null \/ avg.sum = 0 THEN [na |-> TRUE, tenths |-> 0]
    ELSE [na |-> FALSE, tenths |-> round1(avg.sum, avg.n)]

\* generate_report(days): the lines printed, one row per listed server
generate_report(srv, st, now, days) ==
    [ i \in 1..Len(srv) |->
        LET data == aggregate(srv, st, srv[i].name, now, days) IN
        [ name |-> srv[i].name, ip |-> srv[i].ip,
          peak |-> show_peak(data.peak), avg |-> show_avg(data.avg),
          days |-> data.days ] ]

---------------------------------------------------------------------------
(* detect_anomalies: the decision for one server's data, newest first *)

Squares(s) == [i \in 1..Len(s) |-> s[i] * s[i]]

\* n (n - 1) times the sample variance of base: stdev(base) = 0 iff this is 0
VarNum(base) == Len(base) * Sum(Squares(base)) - Sum(base) * Sum(base)

std_is_zero(base) == VarNum(base) = 0

\* above_threshold with a fault: the threshold is avg + 2*std in both branches
above_threshold_no_zero_branch(current, base) ==
    LET n == Len(base)
        d == n * current - Sum(base)
    IN d > 0 /\ d * d * (n - 1) > 4 * VarNum(base) * n

\* current > threshold, where threshold is avg * 1.5 if std == 0 and
\* avg + 2*std otherwise (avg = S/n, std = sqrt(VarNum / (n (n-1))))
above_threshold(current, base) ==
    LET n == Len(base)
        d == n * current - Sum(base)
    IN IF std_is_zero(base)
       THEN 2 * n * current > 3 * Sum(base)
       ELSE d > 0 /\ d * d * (n - 1) > 4 * VarNum(base) * n

\* below_low with a fault: the low threshold is tested in the std != 0 branch only
below_low_nonzero_std(current, base) ==
    LET n == Len(base)
        d == Sum(base) - n * current
    IN ~std_is_zero(base) /\ d > 0 /\ d * d * (n - 1) > 4 * VarNum(base) * n

\* current < (avg - 2*std): evaluated in both branches of the std test
below_low(current, base) ==
    LET n == Len(base)
        d == Sum(base) - n * current
    IN d > 0 /\ d * d * (n - 1) > 4 * VarNum(base) * n

\* detect with a fault: two samples are taken for enough
detect_from_two(data) ==
    IF Len(data) < MinHistory - 1 THEN "none"
    ELSE IF above_threshold(data[1], Tail(data)) THEN "spike"
    ELSE IF below_low(data[1], Tail(data)) THEN "drop"
    ELSE "none"

detect(data) ==
    IF Len(data) < MinHistory THEN "none"
    ELSE IF above_threshold(data[1], Tail(data)) THEN "spike"
    ELSE IF below_low(data[1], Tail(data)) THEN "drop"
    ELSE "none"

\* detect_anomalies(): the flag printed for each listed server
detect_anomalies(srv, st) ==
    [ i \in 1..Len(srv) |->
        [ name |-> srv[i].name, flag |-> detect(recent_online(srv, st, srv[i].name)) ] ]

\* clean_old_data with a fault: the DELETE uses <= for <
clean_old_data_inclusive(st, now) ==
    SelectSeq(st, LAMBDA s : ~(s.ts <= now - RetainDays * Day))

\* DELETE FROM stats WHERE timestamp < datetime('now', '-30 days')
clean_old_data(st, now) == SelectSeq(st, LAMBDA s : ~(s.ts < now - RetainDays * Day))

\* plot_trend(server_names, days): the series drawn and the file saved
plot_trend(srv, st, server_names, now, days) ==
    [ series |-> [ i \in 1..Len(server_names) |->
                     SortByTs(WindowSamples(srv, st, server_names[i], now, days)) ],
      file   |-> [days |-> days, names |-> server_names] ]

---------------------------------------------------------------------------
(* Inputs: what the keyboard types and what a status query answers *)

Names     == { <<"a">>, <<"b">> }
Addresses == { <<"x">>, <<"y">> }

\* player counts a reachable server reports
Counts == { 0, 3 }

\* JavaServer.lookup(ip).status(): an answer with a count, or an exception
Outcomes == { [ok |-> FALSE, online |-> 0] } \cup { [ok |-> TRUE, online |-> c] : c \in Counts }

\* seconds of the clock a status query takes (timeout = 2.0)
Durations == { 0, 2 }

\* what the status check of `add` can return: the check succeeds only while
\* the server can still get an id within MaxServerId, or is a duplicate
Reachable(srv, next, name, ip) ==
    IF next <= MaxServerId \/ IntegrityError(srv, name, ip) THEN BOOLEAN ELSE {FALSE}

W_one == <<"1">>

\* a day count written with an underscore: int('1_0') is 10
W_ten == <<"1","_","0">>

\* a day count that leads before the first day SQLite knows
W_ages == <<"2","4","7","0","0","0","0">>

\* the lines that change the store
StoreLines ==
    { Line(<<W_add, n, a>>) : n \in Names, a \in Addresses }
    \cup { Line(<<W_remove, <<"a">>>>), Line(<<W_delete, <<"a">>>>) }

\* lines as typed, before strip() and lower()
TypedLines ==
    { Line(<<W_add, n, a>>) : n \in Names, a \in Addresses }
    \cup { Line(<<W_remove, n>>) : n \in Names }
    \cup { W_exit, W_help, W_now, W_list, W_config, W_report,
           Line(<<W_delete, <<"a">>>>),
           Line(<<W_report, W_one>>),
           Line(<<W_report, <<"x">>>>),
           Line(<<W_trend, W_one, <<"a">>>>),
           Line(<<W_trend, W_one, <<"a">>, <<"b">>>>),
           Line(<<W_trend, <<"x">>, <<"a">>>>),
           Line(<<W_add, <<"a">>>>),
           Line(<<W_remove \o <<"a","l","l">>, <<"a">>>>),
           Line(<<W_delete \o <<"d">>, <<"a">>>>),
           Line(<<W_add \o <<"r","e","s","s">>, <<"b">>, <<"y">>>>),
           <<"f","o","o">>,
           <<" ","E","X","I","T"," ">>,
           <<" "," ">>,
           <<"\t","e","x","i","t","\t">>,
           W_remove \o <<"\t">> \o <<"a">>,
           Line(<<W_report, W_ten>>),
           Line(<<W_trend, W_ten, <<"a">>>>),
           Line(<<W_report, W_ages>>) }

---------------------------------------------------------------------------
(* The command interpreter *)

Out(kind, rows, arg) == [kind |-> kind, rows |-> rows, arg |-> arg]

Quiet == Out("none", <<>>, 0)

\* a command that only prints, after `d` seconds of status queries
PrintsAfter(o, d) ==
    /\ out' = o
    /\ clock' = clock + d
    /\ UNCHANGED <<servers, nextId, stats, running, removed>>

\* a command that only prints
Prints(o) == PrintsAfter(o, 0)

\* add_server(name, ip): the status check, then the INSERT
add_server(name, ip) ==
    \E reachable \in Reachable(servers, nextId, name, ip) : \E d \in Durations :
        IF ~reachable THEN PrintsAfter(Out("verify_failed", <<name>>, 0), d)
        ELSE IF IntegrityError(servers, name, ip)
        THEN PrintsAfter(Out("exists", <<name>>, 0), d)
        ELSE /\ servers' = insert_server(servers, nextId, name, ip)
             /\ nextId' = nextId + 1
             /\ removed' = removed \ {name}
             /\ out' = Out("added", <<name>>, 0)
             /\ clock' = clock + d
             /\ UNCHANGED <<stats, running>>

\* remove_server(name)
remove_server(name) ==
    /\ servers' = delete_server_row(servers, name)
    /\ stats' = stats_after_remove(stats, servers, name)
    /\ IF name \in ServerNames(servers)
       THEN removed' = removed \cup {name} /\ out' = Out("removed", <<name>>, 0)
       ELSE removed' = removed /\ out' = Out("not_found", <<name>>, 0)
    /\ UNCHANGED <<nextId, running, clock>>

\* delete_server_data(name)
delete_server_data(name) ==
    LET server_id == get_server_id(servers, name) IN
    IF server_id = None THEN Prints(Out("not_found", <<name>>, 0))
    ELSE /\ stats' = delete_stats_of(stats, server_id)
         /\ out' = Out("deleted", <<name>>, Len(stats) - Len(delete_stats_of(stats, server_id)))
         /\ UNCHANGED <<servers, nextId, running, removed, clock>>

\* real_time_query(): every listed server is asked, nothing is stored
real_time_query ==
    IF load_servers(servers) = <<>> THEN Prints(Out("no_servers", <<>>, 0))
    ELSE \E res \in [1..Len(servers) -> Outcomes] :
         \E took \in [1..Len(servers) -> Durations] :
            PrintsAfter(Out("now", [i \in 1..Len(servers) |->
                                       [name |-> servers[i].name, result |-> res[i]]], 0),
                        Sum(took))

\* _list_servers()
list_servers ==
    IF load_servers(servers) = <<>> THEN Prints(Out("no_servers", <<>>, 0))
    ELSE Prints(Out("list", load_servers(servers), 0))

handle_add(cmd) ==
    LET parts == split(cmd) IN
    IF Len(parts) # 3 THEN Prints(Out("usage", <<W_add>>, 0))
    ELSE add_server(parts[2], parts[3])

handle_remove(cmd) ==
    LET parts == split(cmd) IN
    IF Len(parts) # 2 THEN Prints(Out("usage", <<W_remove>>, 0))
    ELSE remove_server(parts[2])

handle_delete(cmd) ==
    LET parts == split(cmd) IN
    IF Len(parts) # 2 THEN Prints(Out("usage", <<W_delete>>, 0))
    ELSE delete_server_data(parts[2])

handle_report(cmd) ==
    LET parts == split(cmd) IN
    IF Len(parts) > 1 /\ ~IsInt(parts[2]) THEN Prints(Out("value_error", <<W_report>>, 0))
    ELSE LET days == IF Len(parts) > 1 THEN int(parts[2]) ELSE 1 IN
         Prints(Out("report", generate_report(servers, stats, utc(clock), days), days))

\* handle_trend with a fault: the names that exist are plotted, the others skipped
handle_trend_partial(cmd) ==
    LET parts == split(cmd) IN
    IF Len(parts) < 3 THEN Prints(Out("usage", <<W_trend>>, 0))
    ELSE IF ~IsInt(parts[2]) THEN Prints(Out("value_error", <<W_trend>>, 0))
    ELSE LET asked == SelectSeq(SubSeq(parts, 3, Len(parts)),
                                LAMBDA n : n \in ServerNames(servers))
         IN Prints(Out("trend",
                       plot_trend(servers, stats, asked, utc(clock), int(parts[2])).series,
                       plot_trend(servers, stats, asked, utc(clock), int(parts[2])).file))

handle_trend(cmd) ==
    LET parts == split(cmd) IN
    IF Len(parts) < 3 THEN Prints(Out("usage", <<W_trend>>, 0))
    ELSE IF ~IsInt(parts[2]) THEN Prints(Out("value_error", <<W_trend>>, 0))
    ELSE LET asked   == SubSeq(parts, 3, Len(parts))
             invalid == SelectSeq(asked, LAMBDA n : n \notin ServerNames(servers))
         IN IF invalid # <<>> THEN Prints(Out("no_such_server", invalid, 0))
            ELSE Prints(Out("trend",
                            plot_trend(servers, stats, asked, utc(clock), int(parts[2])).series,
                            plot_trend(servers, stats, asked, utc(clock), int(parts[2])).file))

\* _execute_command(cmd)
execute_command(cmd) ==
    IF cmd = W_exit THEN
        /\ running' = FALSE
        /\ out' = Out("exit", <<>>, 0)
        /\ UNCHANGED <<servers, nextId, stats, removed, clock>>
    ELSE IF cmd = W_help THEN Prints(Out("help", <<>>, 0))
    ELSE IF cmd = W_now THEN real_time_query
    ELSE IF cmd = W_list THEN list_servers
    ELSE IF startswith(cmd, W_add) THEN handle_add(cmd)
    ELSE IF startswith(cmd, W_remove) THEN handle_remove(cmd)
    ELSE IF startswith(cmd, W_delete) THEN handle_delete(cmd)
    ELSE IF startswith(cmd, W_report) THEN handle_report(cmd)
    ELSE IF startswith(cmd, W_trend) THEN handle_trend(cmd)
    ELSE IF cmd = W_config THEN Prints(Out("config", <<>>, 0))
    ELSE Prints(Out("unknown", <<>>, 0))

---------------------------------------------------------------------------
(* The input thread *)

\* _input_loop on '\r' with `raw` in the buffer
type_line(raw) ==
    /\ pc # "stopped"
    /\ input_thread = "alive"
    /\ buffer = <<>>
    /\ typed < MaxTyped
    /\ LET cmd == lower(strip(raw)) IN
       IF cmd # <<>>
       THEN cmd_queue' = Append(cmd_queue, cmd) /\ typed' = typed + 1
       ELSE UNCHANGED <<cmd_queue, typed>>
    /\ UNCHANGED <<servers, nextId, stats, never_delete, running, pc, clock,
                   last_collect, last_report, last_clean, round, out, removed,
                   reported_day, checked_hour,
                   buffer, input_thread, started, utc_offset, current_cmd>>

\* the Enter key, '\r'
CR == "\r"

\* the backspace key, '\x08'
BS == ""

\* the keys pressed
Keys == { "E", " ", CR, BS }

\* WindowsInput.__init__ has reached line 60: the attribute cmd_queue exists
queue_created == pc \notin { "init_buffer", "init_thread", "init_queue" }

\* _input_loop: one iteration in which kbhit() is true and getwch() gives char.
\* self.cmd_queue.put raises AttributeError while the attribute does not exist:
\* the exception leaves _input_loop and the thread ends, the line is not queued.
key(char) ==
    /\ input_thread = "alive"
    /\ pc # "stopped"
    /\ IF char = CR
       THEN LET cmd == lower(strip(buffer)) IN
            IF cmd = <<>>
            THEN buffer' = <<>> /\ UNCHANGED <<cmd_queue, typed, input_thread>>
            ELSE IF ~queue_created
            THEN input_thread' = "dead" /\ UNCHANGED <<buffer, cmd_queue, typed>>
            ELSE /\ typed < MaxTyped
                 /\ cmd_queue' = Append(cmd_queue, cmd)
                 /\ typed' = typed + 1
                 /\ buffer' = <<>>
                 /\ UNCHANGED input_thread
       ELSE IF char = BS
       THEN /\ buffer' = IF buffer # <<>> THEN SubSeq(buffer, 1, Len(buffer) - 1) ELSE buffer
            /\ UNCHANGED <<cmd_queue, typed, input_thread>>
       ELSE /\ Len(buffer) < MaxBuffer
            /\ buffer' = Append(buffer, char)
            /\ UNCHANGED <<cmd_queue, typed, input_thread>>
    /\ UNCHANGED <<servers, nextId, stats, never_delete, running, pc, clock,
                   last_collect, last_report, last_clean, round, out, removed,
                   reported_day, checked_hour, started, utc_offset, current_cmd>>

---------------------------------------------------------------------------
(* WindowsInput.__init__, statement by statement *)

\* self.buffer = []
ctor_buffer ==
    /\ pc = "init_buffer"
    /\ buffer' = <<>>
    /\ pc' = "init_thread"
    /\ UNCHANGED <<servers, nextId, stats, never_delete, running, cmd_queue, clock,
                   last_collect, last_report, last_clean, round, out, removed,
                   typed, reported_day, checked_hour, input_thread, started, utc_offset, current_cmd>>

\* self.input_thread = threading.Thread(...); self.input_thread.start()
ctor_start ==
    /\ pc = "init_thread"
    /\ input_thread' = "alive"
    /\ pc' = "init_queue"
    /\ UNCHANGED <<servers, nextId, stats, never_delete, running, cmd_queue, clock,
                   last_collect, last_report, last_clean, round, out, removed,
                   typed, reported_day, checked_hour, buffer, started, utc_offset, current_cmd>>

\* self.cmd_queue = queue.Queue(); then run() up to its loop
ctor_queue ==
    /\ pc = "init_queue"
    /\ cmd_queue' = <<>>
    /\ pc' = "drain"
    /\ UNCHANGED <<servers, nextId, stats, never_delete, running, clock,
                   last_collect, last_report, last_clean, round, out, removed,
                   typed, reported_day, checked_hour, buffer, input_thread,
                   started, utc_offset, current_cmd>>

---------------------------------------------------------------------------
(* The scheduler loop MCMonitor.run *)

Idle == [active |-> FALSE, servers |-> <<>>, results |-> <<>>, before |-> <<>>]

\* get_cmd with a fault: the queue hands out its newest line first
get_cmd_newest(q) == [cmd |-> q[Len(q)], rest |-> SubSeq(q, 1, Len(q) - 1)]

\* get_cmd() on a queue that is not empty: queue.Queue is first in, first out
get_cmd(q) == [cmd |-> Head(q), rest |-> Tail(q)]

\* _process_input, line 349: get_cmd() took a command from the queue
run_get ==
    /\ pc = "drain"
    /\ cmd_queue # <<>>
    /\ cmd_queue' = get_cmd(cmd_queue).rest
    /\ current_cmd' = get_cmd(cmd_queue).cmd
    /\ pc' = "execute"
    /\ UNCHANGED <<servers, nextId, stats, never_delete, running, clock,
                   last_collect, last_report, last_clean, round, out, removed,
                   typed, reported_day, checked_hour, buffer, input_thread,
                   started, utc_offset>>

\* _process_input, lines 352 to 357: the command taken is executed
run_drain ==
    /\ pc = "execute"
    /\ execute_command(current_cmd)
    /\ current_cmd' = <<>>
    /\ pc' = "drain"
    /\ UNCHANGED <<never_delete, cmd_queue, last_collect, last_report, last_clean,
                   round, typed, reported_day, checked_hour,
                   buffer, input_thread, started, utc_offset>>

\* _process_input: get_cmd() returned None
run_drain_done ==
    /\ pc = "drain"
    /\ cmd_queue = <<>>
    /\ pc' = "collect"
    /\ out' = Quiet
    /\ UNCHANGED <<servers, nextId, stats, never_delete, running, cmd_queue, clock,
                   last_collect, last_report, last_clean, round, removed,
                   typed, reported_day, checked_hour,
                   buffer, input_thread, started, utc_offset, current_cmd>>

\* poll_due with a fault: > for >=
poll_due_strict(now, last) == now - last > interval

\* time.time() - last_collect >= CONFIG['interval']
poll_due(now, last) == now - last >= interval

\* the poll test of the tick, and collect_data up to its loop
run_collect ==
    /\ pc = "collect"
    /\ out' = Quiet
    /\ IF poll_due(clock, last_collect)
       THEN IF load_servers(servers) = <<>>
            THEN /\ last_collect' = clock
                 /\ pc' = "report"
                 /\ round' = Idle
            ELSE /\ pc' = "collect_loop"
                 /\ round' = [active |-> TRUE, servers |-> load_servers(servers),
                              results |-> <<>>, before |-> stats]
                 /\ UNCHANGED last_collect
       ELSE /\ pc' = "report"
            /\ UNCHANGED <<last_collect, round>>
    /\ UNCHANGED <<servers, nextId, stats, never_delete, running, cmd_queue, clock,
                   last_report, last_clean, removed, typed, reported_day, checked_hour,
                   buffer, input_thread, started, utc_offset, current_cmd>>

\* one iteration of collect_data's loop: the stats table after the status
\* query of `server` answered `o`
collect_one(st, srv, server, o, now) ==
    IF o.ok THEN insert_stat(st, get_server_id(srv, server.name), o.online, now)
    ELSE st

\* loop_continues with a fault: an exception of the status query ends the round
loop_stops_on_failure(o) == o.ok

\* whether collect_data's loop goes on to the next server after answer `o`:
\* `except Exception` is inside the loop body, so it always does
loop_continues(o) == TRUE

\* one iteration of collect_data's loop: the status query takes `d` seconds,
\* and the row of an answer is stamped when it is inserted
collect_step ==
    /\ pc = "collect_loop"
    /\ \E o \in Outcomes : \E d \in Durations :
        LET k       == Len(round.results) + 1
            last    == k = Len(round.servers) \/ ~loop_continues(o)
        IN /\ clock' = clock + d
           /\ stats' = collect_one(stats, servers, round.servers[k], o, utc(clock'))
           /\ round' = [round EXCEPT !.results =
                          Append(@, [ok |-> o.ok, online |-> o.online,
                                     at |-> IF o.ok THEN utc(clock') ELSE 0])]
           /\ out' = Out("collect", <<round.servers[k].name>>, 0)
           /\ pc' = IF last THEN "report" ELSE "collect_loop"
           /\ last_collect' = IF last THEN clock' ELSE last_collect
    /\ UNCHANGED <<servers, nextId, never_delete, running, cmd_queue,
                   last_report, last_clean, removed, typed, reported_day, checked_hour,
                   buffer, input_thread, started, utc_offset, current_cmd>>

\* the daily report test of the tick
run_report ==
    /\ pc = "report"
    /\ pc' = "clean"
    /\ IF hour(clock) = ReportHour /\ minute(clock) < ReportMinutes
       THEN /\ out' = Out("report", generate_report(servers, stats, utc(clock), 1), 1)
            /\ last_report' = clock
            /\ reported_day' = date(clock)
       ELSE /\ out' = Quiet
            /\ UNCHANGED <<last_report, reported_day>>
    /\ UNCHANGED <<servers, nextId, stats, never_delete, running, cmd_queue, clock,
                   last_collect, last_clean, round, removed, typed, checked_hour,
                   buffer, input_thread, started, utc_offset, current_cmd>>

\* the weekly cleanup test of the tick, and clean_old_data
run_clean ==
    /\ pc = "clean"
    /\ pc' = "anomaly"
    /\ IF (clock - last_clean) \div Day >= CleanDays
       THEN /\ last_clean' = clock
            /\ IF never_delete
               THEN stats' = stats /\ out' = Out("keep", <<>>, 0)
               ELSE /\ stats' = clean_old_data(stats, utc(clock))
                    /\ out' = Out("cleaned", <<>>,
                                  Len(stats) - Len(clean_old_data(stats, utc(clock))))
       ELSE /\ out' = Quiet
            /\ UNCHANGED <<stats, last_clean>>
    /\ UNCHANGED <<servers, nextId, never_delete, running, cmd_queue, clock,
                   last_collect, last_report, round, removed, typed, reported_day, checked_hour,
                   buffer, input_thread, started, utc_offset, current_cmd>>

\* the hourly anomaly test of the tick
run_anomaly ==
    /\ pc = "anomaly"
    /\ pc' = "sleep"
    /\ IF minute(clock) = 0
       THEN /\ out' = Out("anomaly", detect_anomalies(servers, stats), 0)
            /\ checked_hour' = HourIndex(clock)
       ELSE /\ out' = Quiet
            /\ UNCHANGED checked_hour
    /\ UNCHANGED <<servers, nextId, stats, never_delete, running, cmd_queue, clock,
                   last_collect, last_report, last_clean, round, removed, typed, reported_day,
                   buffer, input_thread, started, utc_offset, current_cmd>>

\* loop_test with a fault: the loop does not look at the flag
loop_test_ignores_flag(flag) == TRUE

\* `while self.running`
loop_test(flag) == flag

\* time.sleep(0.1) and the loop test `while self.running`
run_sleep ==
    /\ pc = "sleep"
    /\ clock' \in {clock} \cup { t \in Instants : t > clock }
    /\ pc' = IF loop_test(running) THEN "drain" ELSE "stopped"
    /\ round' = Idle
    /\ out' = IF loop_test(running) THEN Quiet ELSE Out("stopped", <<>>, 0)
    /\ IF loop_test(running) THEN UNCHANGED <<last_collect, last_report, last_clean>>
       ELSE last_collect' = 0 /\ last_report' = 0 /\ last_clean' = 0
    /\ UNCHANGED <<servers, nextId, stats, never_delete, running, cmd_queue,
                   removed, typed, reported_day, checked_hour,
                   buffer, input_thread, started, utc_offset, current_cmd>>

\* KeyboardInterrupt raised in the main thread: it is no Exception, so it leaves
\* whatever the loop is doing and reaches `except KeyboardInterrupt` of run().
\* The `finally` prints that the monitor stopped; run() returns and its locals
\* are gone.
interrupt ==
    /\ pc # "stopped"
    /\ running' = FALSE
    /\ pc' = "stopped"
    /\ last_collect' = 0
    /\ last_report' = 0
    /\ last_clean' = 0
    /\ current_cmd' = <<>>
    /\ out' = Out("stopped", <<>>, 0)
    /\ UNCHANGED <<servers, nextId, stats, never_delete, cmd_queue, clock,
                   round, removed, typed, reported_day, checked_hour,
                   buffer, input_thread, started, utc_offset>>

\* a first run, on an empty database, without --never-delete
Init ==
    /\ utc_offset = HomeOffset
    /\ current_cmd = <<>>
    /\ servers = <<>>
    /\ nextId = 1
    /\ stats = <<>>
    /\ never_delete = FALSE
    /\ running = TRUE
    /\ cmd_queue = <<>>
    /\ pc = "drain"
    /\ clock = Timeline[1]
    /\ last_collect = Timeline[1]
    /\ last_report = Timeline[1]
    /\ last_clean = Timeline[1]
    /\ round = Idle
    /\ out = Quiet
    /\ removed = {}
    /\ typed = 0
    /\ reported_day = -1
    /\ checked_hour = -1
    /\ buffer = <<>>
    /\ input_thread = "alive"
    /\ started = clock

Next ==
    \/ \E raw \in StoreLines : type_line(raw)
    \/ run_get
    \/ run_drain
    \/ run_drain_done
    \/ run_collect
    \/ collect_step
    \/ run_report
    \/ run_clean
    \/ run_anomaly
    \/ run_sleep
    \/ interrupt

Spec == Init /\ [][Next]_vars

---------------------------------------------------------------------------
(* A run that starts on the database an earlier run left: server a with one
   sample.  The user types one line, any of TypedLines. *)

InitCommands ==
    /\ utc_offset \in Offsets
    /\ current_cmd = <<>>
    /\ servers = << [id |-> 1, name |-> <<"a">>, ip |-> <<"x">>] >>
    /\ nextId = 2
    /\ stats = << [server_id |-> 1, online |-> 3, ts |-> utc(At(0, 7, 50))] >>
    /\ never_delete \in BOOLEAN
    /\ running = TRUE
    /\ cmd_queue = <<>>
    /\ pc = "drain"
    /\ clock = Timeline[1]
    /\ last_collect = Timeline[1]
    /\ last_report = Timeline[1]
    /\ last_clean = Timeline[1]
    /\ round = Idle
    /\ out = Quiet
    /\ removed = {}
    /\ typed = 0
    /\ reported_day = -1
    /\ checked_hour = -1
    /\ buffer = <<>>
    /\ input_thread = "alive"
    /\ started = clock

NextCommands ==
    \/ \E raw \in TypedLines : typed = 0 /\ type_line(raw)
    \/ run_get
    \/ run_drain
    \/ run_drain_done
    \/ run_collect
    \/ collect_step
    \/ run_report
    \/ run_clean
    \/ run_anomaly
    \/ run_sleep
    \/ interrupt

SpecCommands == InitCommands /\ [][NextCommands]_vars

---------------------------------------------------------------------------
(* The anomaly detection of one tick, on every history of one server *)

\* samples of the histories
DetectCounts == { 0, 9, 10, 16 }

\* longest history drawn
MaxHistory == 6

Histories == UNION { [1..n -> DetectCounts] : n \in 0..MaxHistory }

\* histories with a baseline of varied counts, oldest sample first
VariedHistories ==
    { <<9, 11, 8, 12, 10, c>> : c \in { 3, 6, 7, 10, 13, 14, 20 } }
    \cup { <<10, 10, 10, 10, 10, c>> : c \in { 14, 15 } }

\* history h (oldest first) as the stats rows of server 1, one poll every interval
StatsOf(h) == [i \in 1..Len(h) |->
                 [server_id |-> 1, online |-> h[i], ts |-> utc(At(0, 8, 0) + i * interval)]]

InitDetect ==
    /\ utc_offset = HomeOffset
    /\ current_cmd = <<>>
    /\ servers = << [id |-> 1, name |-> <<"a">>, ip |-> <<"x">>] >>
    /\ nextId = 2
    /\ stats \in { StatsOf(h) : h \in Histories \cup VariedHistories }
    /\ never_delete = TRUE
    /\ running = TRUE
    /\ cmd_queue = <<>>
    /\ pc = "anomaly"
    /\ clock = At(0, 9, 0)
    /\ last_collect = At(0, 9, 0)
    /\ last_report = At(0, 8, 0)
    /\ last_clean = At(0, 8, 0)
    /\ round = Idle
    /\ out = Quiet
    /\ removed = {}
    /\ typed = 0
    /\ reported_day = -1
    /\ checked_hour = -1
    /\ buffer = <<>>
    /\ input_thread = "alive"
    /\ started = At(0, 8, 0)

NextDetect == run_anomaly

SpecDetect == InitDetect /\ [][NextDetect]_vars

---------------------------------------------------------------------------
(* The tick that begins at 08:00 of day 0 in a run that started a week before
   and polled last at 07:55, with the lines typed since the last drain in the
   queue, on a machine at UTC+8.  One more line may be typed while the tick
   runs. *)

W_two == <<"2">>

\* lines as the input thread queued them
QueuedLines ==
    { W_exit, W_list,
      Line(<<W_remove, <<"a">>>>),
      Line(<<W_add, <<"b">>, <<"y">>>>),
      Line(<<W_add, <<"a">>>>),
      W_remove,
      Line(<<W_delete, <<"a">>, <<"b">>>>),
      Line(<<W_report, <<"x">>>>),
      Line(<<W_report, W_one, W_two>>),
      Line(<<W_trend, W_one>>),
      Line(<<W_trend, <<"x">>, <<"a">>>>) }

Queues == UNION { [1..n -> QueuedLines] : n \in 0..MaxQueued }

LateLines == { W_exit, Line(<<W_remove, <<"a">>>>) }

InitDrain ==
    /\ utc_offset = HomeOffset
    /\ current_cmd = <<>>
    /\ servers = << [id |-> 1, name |-> <<"a">>, ip |-> <<"x">>] >>
    /\ nextId = 2
    /\ stats = << [server_id |-> 1, online |-> 3, ts |-> utc(At(0, 7, 50))] >>
    /\ never_delete \in BOOLEAN
    /\ running = TRUE
    /\ cmd_queue \in Queues
    /\ pc = "drain"
    /\ clock = At(0, 8, 0)
    /\ last_collect = At(0, 7, 55)
    /\ last_report = At(0, 8, 0) - CleanDays * Day
    /\ last_clean = At(0, 8, 0) - CleanDays * Day
    /\ round = Idle
    /\ out = Quiet
    /\ removed = {}
    /\ typed = 0
    /\ reported_day = -1
    /\ checked_hour = -1
    /\ buffer = <<>>
    /\ input_thread = "alive"
    /\ started = At(0, 8, 0) - CleanDays * Day

NextDrain ==
    \/ \E raw \in LateLines : typed = 0 /\ type_line(raw)
    \/ run_get
    \/ run_drain
    \/ run_drain_done
    \/ run_collect
    \/ collect_step
    \/ run_report
    \/ run_clean
    \/ run_anomaly
    \/ run_sleep
    \/ interrupt

SpecDrain == InitDrain /\ [][NextDrain]_vars

---------------------------------------------------------------------------
(* The cleanup test of one tick, on stats tables with samples of every age
   around the 30 days and a last cleanup at every distance around the 7 days *)

CleanClock == At(38, 9, 0)

\* ages of the samples, seconds
Ages == { 0, RetainDays * Day - 1, RetainDays * Day, RetainDays * Day + 1,
          (RetainDays + 1) * Day }

\* seconds since the last cleanup
SinceClean == { 0, CleanDays * Day - 1, CleanDays * Day, CleanDays * Day + 1,
                (CleanDays + 1) * Day }

\* stats tables: rows are inserted as time passes, so ages do not grow with rowid
AgedStats ==
    { st \in UNION { [1..n -> [server_id : {1, 2}, online : {3},
                               ts : { utc(CleanClock) - a : a \in Ages }]] : n \in 0..MaxStats } :
        \A i \in 1..(Len(st) - 1) : st[i].ts <= st[i + 1].ts }

InitClean ==
    /\ utc_offset \in Offsets
    /\ current_cmd = <<>>
    /\ servers = << [id |-> 1, name |-> <<"a">>, ip |-> <<"x">>],
                    [id |-> 2, name |-> <<"b">>, ip |-> <<"y">>] >>
    /\ nextId = 3
    /\ stats \in AgedStats
    /\ never_delete \in BOOLEAN
    /\ running = TRUE
    /\ cmd_queue = <<>>
    /\ pc = "clean"
    /\ clock = CleanClock
    /\ last_collect = CleanClock
    /\ last_clean \in { CleanClock - e : e \in SinceClean }
    /\ last_report = last_clean
    /\ round = Idle
    /\ out = Quiet
    /\ removed = {}
    /\ typed = 0
    /\ reported_day = -1
    /\ checked_hour = -1
    /\ buffer = <<>>
    /\ input_thread = "alive"
    /\ started = last_clean

NextClean == run_clean

SpecClean == InitClean /\ [][NextClean]_vars

---------------------------------------------------------------------------
(* Runs that start a little before the first instant of Timeline, on a
   database with servers and no samples; nothing is typed *)

\* seconds from the start of the loop to the first instant of Timeline
Leads == { 0, 1, interval - 1, interval, interval + 1 }

Registered ==
    { <<>>,
      << [id |-> 1, name |-> <<"a">>, ip |-> <<"x">>] >>,
      << [id |-> 1, name |-> <<"a">>, ip |-> <<"x">>],
         [id |-> 2, name |-> <<"b">>, ip |-> <<"y">>] >> }

InitPoll ==
    /\ utc_offset = HomeOffset
    /\ current_cmd = <<>>
    /\ servers \in Registered
    /\ nextId = Len(servers) + 1
    /\ stats = <<>>
    /\ never_delete \in BOOLEAN
    /\ running = TRUE
    /\ cmd_queue = <<>>
    /\ pc = "drain"
    /\ clock \in { Timeline[1] - e : e \in Leads }
    /\ last_collect = clock
    /\ last_report = clock
    /\ last_clean = clock
    /\ round = Idle
    /\ out = Quiet
    /\ removed = {}
    /\ typed = 0
    /\ reported_day = -1
    /\ checked_hour = -1
    /\ buffer = <<>>
    /\ input_thread = "alive"
    /\ started = clock

NextPoll ==
    \/ run_drain_done
    \/ run_collect
    \/ collect_step
    \/ run_report
    \/ run_clean
    \/ run_anomaly
    \/ run_sleep
    \/ interrupt

SpecPoll == InitPoll /\ [][NextPoll]_vars

---------------------------------------------------------------------------
(* The construction of WindowsInput while keys are pressed: the input thread
   runs from the moment it is started *)

InitStart ==
    /\ utc_offset = HomeOffset
    /\ current_cmd = <<>>
    /\ servers = <<>>
    /\ nextId = 1
    /\ stats = <<>>
    /\ never_delete \in BOOLEAN
    /\ running = TRUE
    /\ cmd_queue = <<>>
    /\ pc = "init_buffer"
    /\ clock = Timeline[1]
    /\ last_collect = Timeline[1]
    /\ last_report = Timeline[1]
    /\ last_clean = Timeline[1]
    /\ round = Idle
    /\ out = Quiet
    /\ removed = {}
    /\ typed = 0
    /\ reported_day = -1
    /\ checked_hour = -1
    /\ buffer = <<>>
    /\ input_thread = "unstarted"
    /\ started = clock

NextStart ==
    \/ ctor_buffer
    \/ ctor_start
    \/ ctor_queue
    \/ \E char \in Keys : key(char)

SpecStart == InitStart /\ [][NextStart]_vars

---------------------------------------------------------------------------
(* Properties *)

\* C1: the daily report runs at most once per calendar day: a tick in the
\* report window runs the report only if no scheduled report has run that day.
C1_ReportOncePerDay ==
    [][(pc = "report" /\ pc' = "clean" /\ out'.kind = "report")
          => reported_day # date(clock)]_vars

\* C2: anomaly detection runs at most once per hour: a tick at minute 0 runs it
\* only if it has not already run in that clock hour.
C2_AnomalyOncePerHour ==
    [][(pc = "anomaly" /\ pc' = "sleep" /\ out'.kind = "anomaly")
          => checked_hour # HourIndex(clock)]_vars

\* C3: referential integrity: every stats row's server_id is the id of a row
\* of servers, in every reachable state.
C3_ReferentialIntegrity ==
    \A i \in 1..Len(stats) : stats[i].server_id \in ServerIds(servers)

WindowDays == { 0, 1, 7, 40 }

\* every by-name sample query for name n is empty
NoSamplesByName(n) ==
    /\ JoinByName(servers, stats, n) = <<>>
    /\ recent_online(servers, stats, n) = <<>>
    /\ \A t \in Instants : \A d \in WindowDays :
          /\ WindowSamples(servers, stats, n, t, d) = <<>>
          /\ aggregate(servers, stats, n, t, d).days = 0
          /\ plot_trend(servers, stats, <<n>>, t, d).series = << <<>> >>

\* C4: after remove_server(name) succeeded and until name is added again, the
\* listing does not contain name and every by-name sample query for it is empty.
C4_RemovedNameIsGone ==
    \A n \in removed :
        /\ \A i \in 1..Len(load_servers(servers)) : load_servers(servers)[i].name # n
        /\ NoSamplesByName(n)

\* C4's case: a name was removed while the stats table still holds its rows
C4_Witness ==
    /\ removed # {}
    /\ \E i \in 1..Len(stats) : stats[i].server_id \notin ServerIds(servers)

\* the command grammar of the help text
Recognized(cmd) ==
    LET parts == split(cmd) IN
    \/ cmd \in { W_exit, W_help, W_now, W_list, W_config }
    \/ Len(parts) = 3 /\ parts[1] = W_add
    \/ Len(parts) = 2 /\ parts[1] \in { W_remove, W_delete }
    \/ Len(parts) \in {1, 2} /\ parts[1] = W_report
    \/ Len(parts) >= 3 /\ parts[1] = W_trend

\* the step that executes the command taken from the queue
Executes == pc = "execute" /\ pc' = "drain"

\* C5: executing a line that is not a recognized command leaves the servers,
\* the samples and the running flag unchanged.
C5_UnrecognizedChangesNothing ==
    [][(Executes /\ ~Recognized(current_cmd))
          => (servers' = servers /\ stats' = stats /\ running' = running)]_vars

AllEqual(s) == \A i, j \in 1..Len(s) : s[i] = s[j]

\* the data detect_anomalies read for the server of a printed row
DataOf(row) == recent_online(servers, stats, row.name)

ZeroVariance(row) ==
    Len(DataOf(row)) >= MinHistory /\ AllEqual(Tail(DataOf(row)))

\* C6 as stated: with at least 3 samples and a baseline of standard deviation 0,
\* no drop is flagged, whatever the newest count.
C6_NoDropAtZeroVariance ==
    out.kind = "anomaly" =>
        \A i \in 1..Len(out.rows) : ZeroVariance(out.rows[i]) => out.rows[i].flag # "drop"

\* C6 amended: with at least 3 samples and a baseline of standard deviation 0
\* (every baseline count equal to a), a drop is flagged exactly when the newest
\* count is below a, and a spike exactly when it is above 1.5 a.
C6_DropBelowConstantBaseline ==
    out.kind = "anomaly" =>
        \A i \in 1..Len(out.rows) :
            ZeroVariance(out.rows[i]) =>
                LET data == DataOf(out.rows[i]) IN
                /\ out.rows[i].flag = "drop" <=> data[1] < data[2]
                /\ out.rows[i].flag = "spike" <=> 2 * data[1] > 3 * data[2]

\* C6's case: baseline 10, 10, 10, 10, 10 and newest count 9, flagged as a drop
C6_Witness ==
    /\ out.kind = "anomaly"
    /\ Len(out.rows) = 1
    /\ DataOf(out.rows[1]) = <<9, 10, 10, 10, 10, 10>>
    /\ out.rows[1].flag = "drop"

\* C7: a report row shows peak and average as absent exactly when the window
\* holds no sample of the server, and then the day count is 0.
C7_AbsentIffNoSamples ==
    out.kind = "report" =>
        \A i \in 1..Len(out.rows) :
            LET n == Len(WindowSamples(servers, stats, out.rows[i].name, utc(clock), out.arg)) IN
            /\ out.rows[i].peak.na <=> n = 0
            /\ out.rows[i].avg.na <=> n = 0
            /\ n = 0 => out.rows[i].days = 0

\* an add command whose name or address a registered server already has
DuplicateAdd(cmd) ==
    LET parts == split(cmd) IN
    /\ Len(parts) = 3
    /\ parts[1] = W_add
    /\ \E i \in 1..Len(servers) : servers[i].name = parts[2] \/ servers[i].ip = parts[3]

UniqueServers ==
    \A i, j \in 1..Len(servers) :
        i # j => servers[i].name # servers[j].name /\ servers[i].ip # servers[j].ip

\* C8: an add with the name or the address of a registered server is rejected
\* and leaves the store unchanged; names and addresses are pairwise distinct.
C8_DuplicateAddRejected ==
    /\ []UniqueServers
    /\ [][(Executes /\ DuplicateAdd(current_cmd))
             => (servers' = servers /\ stats' = stats /\ nextId' = nextId
                 /\ out'.kind \in {"exists", "verify_failed"})]_vars

\* C8's case: an add with a new name and a registered address was rejected
C8_Witness ==
    /\ out.kind = "exists"
    /\ out.rows[1] \notin ServerNames(servers)
    /\ servers # <<>>

\* the samples a round appends: one for each answered query, in listing order,
\* stamped when the answer came
RECURSIVE Appended(_, _)
Appended(listed, results) ==
    IF results = <<>> THEN <<>>
    ELSE LET k == Len(results) IN
         Appended(listed, SubSeq(results, 1, k - 1)) \o
         ( IF results[k].ok
           THEN << [server_id |-> get_server_id(servers, listed[k].name),
                    online |-> results[k].online, ts |-> results[k].at] >>
           ELSE <<>> )

\* C9: a poll round visits the servers in listing order and appends exactly one
\* sample, with the returned count, for each server that answered and none for
\* each that failed; a failure neither ends the round nor skips a server.
C9_PollRoundIsolated ==
    (round.active /\ pc \in {"collect_loop", "report"}) =>
        /\ round.servers = load_servers(servers)
        /\ Len(round.results) <= Len(round.servers)
        /\ pc = "report" <=> Len(round.results) = Len(round.servers)
        /\ stats = round.before \o Appended(round.servers, round.results)

\* C9's case: a round over two servers ended, the first failed, the second answered
C9_Witness ==
    /\ round.active
    /\ pc = "report"
    /\ Len(round.servers) = 2
    /\ ~round.results[1].ok
    /\ round.results[2].ok
    /\ Len(stats) = Len(round.before) + 1

\* C10: the loop stops on an interrupt only after the poll round in progress
\* has polled every server.
C10_InterruptAfterRound ==
    (pc = "stopped" /\ round.active) => Len(round.results) = Len(round.servers)

\* the store and the flag are as they were
StoreUnchanged == servers' = servers /\ stats' = stats /\ nextId' = nextId

\* a step of the scheduler loop (the input thread's steps count the lines typed)
LoopStep == typed' = typed

\* C11: once exit has been executed (the flag is down and the loop has not
\* stopped), the checks of that tick run as in any other tick: the poll begins
\* when due and visits every server, the report, the cleanup and the anomaly
\* detection run when their tests hold; the tick's sleep is followed by no other
\* tick, and once the loop has stopped nothing is dequeued and nothing runs.
\* (An interrupt is another cause of termination: its steps are those that
\* reach "stopped" before the sleep.)
C11_ExitEndsLoop ==
    [][ /\ (~running /\ pc = "sleep" /\ LoopStep) => pc' = "stopped"
        /\ pc = "stopped" => UNCHANGED vars
        /\ (~running /\ pc # "stopped" /\ pc' # "stopped" /\ LoopStep) =>
              /\ ~running'
              /\ pc \in {"drain", "execute"} => pc' \in {"drain", "execute", "collect"}
              /\ (pc = "collect" /\ clock - last_collect >= interval) =>
                    IF servers = <<>> THEN pc' = "report" /\ last_collect' = clock
                    ELSE pc' = "collect_loop" /\ round'.servers = load_servers(servers)
              /\ (pc = "collect_loop" /\ pc' = "report") =>
                    Len(round'.results) = Len(round.servers)
              /\ (pc = "report" /\ hour(clock) = ReportHour /\ minute(clock) < ReportMinutes) =>
                    (pc' = "clean" /\ out'.kind = "report")
              /\ (pc = "clean" /\ clock - last_clean >= CleanDays * Day) =>
                    (pc' = "anomaly" /\ out'.kind \in {"cleaned", "keep"})
              /\ (pc = "anomaly" /\ minute(clock) = 0) =>
                    (pc' = "sleep" /\ out'.kind = "anomaly")
      ]_vars

\* C11's case: exit was executed in the tick of 08:00, and that tick polled the
\* server, ran the cleanup and the anomaly detection before its sleep
C11_Witness ==
    /\ ~running
    /\ pc = "sleep"
    /\ round.active
    /\ Len(round.results) = Len(round.servers)
    /\ last_clean = clock
    /\ out.kind = "anomaly"


\* a sample older than 30 days
Expired(s) == utc(clock) - s.ts > RetainDays * Day

\* C12: the cleanup test of a tick leaves the servers alone; with
\* never_delete_data set it deletes no sample; without it, it runs a pass only
\* when at least 7 days have passed since the last one, and the pass deletes
\* exactly the samples older than 30 days and prints their number.
C12_Retention ==
    [][ (pc = "clean" /\ pc' = "anomaly") =>
          LET due == clock - last_clean >= CleanDays * Day IN
          /\ servers' = servers
          /\ never_delete => stats' = stats
          /\ ~due => (stats' = stats /\ last_clean' = last_clean /\ out'.kind = "none")
          /\ (due /\ ~never_delete) =>
                /\ stats' = SelectSeq(stats, LAMBDA s : ~Expired(s))
                /\ out'.kind = "cleaned"
                /\ out'.arg = Cardinality({ i \in 1..Len(stats) : Expired(stats[i]) })
                /\ last_clean' = clock
      ]_vars

\* C12's case: a pass deleted one sample and kept one that is exactly 30 days old
C12_Witness ==
    /\ pc = "anomaly"
    /\ out.kind = "cleaned"
    /\ out.arg = 1
    /\ Len(stats) = 1
    /\ utc(clock) - stats[1].ts = RetainDays * Day


\* the stats rows of the server of a printed row, whatever their age
SamplesOf(row) ==
    SelectSeq(stats, LAMBDA s : \E i \in 1..Len(servers) :
                                  servers[i].name = row.name /\ servers[i].id = s.server_id)

\* C13: detect_anomalies flags nothing for a server that has 0, 1 or 2 samples.
C13_InsufficientHistory ==
    out.kind = "anomaly" =>
        \A i \in 1..Len(out.rows) :
            Len(SamplesOf(out.rows[i])) \in {0, 1, 2} => out.rows[i].flag = "none"

\* C13's case: two samples, the newer above 1.5 times the older, nothing flagged
C13_Witness ==
    /\ out.kind = "anomaly"
    /\ Len(out.rows) = 1
    /\ Onlines(SamplesOf(out.rows[1])) = <<10, 16>>
    /\ out.rows[1].flag = "none"

\* n^2 times the sum of the squared deviations of base from its mean
Dev2(base) ==
    Sum([i \in 1..Len(base) |->
            (Len(base) * base[i] - Sum(base)) * (Len(base) * base[i] - Sum(base))])

\* x > mean(base) + 2 stdev(base), with stdev the sample standard deviation:
\* n x - S > 2 n std and (2 n std)^2 = 4 Dev2 / (n - 1)
AboveTwoStd(x, base) ==
    LET d == Len(base) * x - Sum(base) IN
    d > 0 /\ d * d * (Len(base) - 1) > 4 * Dev2(base)

\* x < mean(base) - 2 stdev(base)
BelowTwoStd(x, base) ==
    LET d == Sum(base) - Len(base) * x IN
    d > 0 /\ d * d * (Len(base) - 1) > 4 * Dev2(base)

\* the flag printed for the server whose data, newest first, is `data`
FlagOf(data) ==
    IF \E i \in 1..Len(out.rows) : DataOf(out.rows[i]) = data
    THEN out.rows[CHOOSE i \in 1..Len(out.rows) : DataOf(out.rows[i]) = data].flag
    ELSE "absent"

\* C14: for a server with at least 3 samples, current the newest count and
\* baseline the up-to-5 counts before it: a spike is flagged iff
\* current > 1.5 mean(baseline) when the baseline's standard deviation is 0 and
\* iff current > mean + 2 std otherwise; with a non-zero standard deviation a
\* drop is flagged iff current < mean - 2 std; one flag at most is printed.
\* Baseline 10,10,10,10,10: 16 is a spike, 14 is not; baseline 10,12,8,11,9:
\* 20 is a spike, 3 is a drop.
C14_Thresholds ==
    out.kind = "anomaly" =>
        /\ \A i \in 1..Len(out.rows) :
              LET data == DataOf(out.rows[i])
                  flag == out.rows[i].flag
              IN Len(data) >= MinHistory =>
                   LET current  == data[1]
                       baseline == Tail(data)
                   IN /\ Len(baseline) <= HistoryLimit - 1
                      /\ flag \in {"spike", "drop", "none"}
                      /\ IF AllEqual(baseline)
                         THEN flag = "spike" <=> 2 * current > 3 * baseline[1]
                         ELSE /\ flag = "spike" <=> AboveTwoStd(current, baseline)
                              /\ flag = "drop" <=> BelowTwoStd(current, baseline)
        /\ FlagOf(<<16, 10, 10, 10, 10, 10>>) \in {"spike", "absent"}
        /\ FlagOf(<<14, 10, 10, 10, 10, 10>>) \in {"none", "absent"}
        /\ FlagOf(<<20, 10, 12, 8, 11, 9>>) \in {"spike", "absent"}
        /\ FlagOf(<<3, 10, 12, 8, 11, 9>>) \in {"drop", "absent"}

\* C14's case: baseline 10, 12, 8, 11, 9 and newest count 3, flagged as a drop
C14_Witness ==
    /\ out.kind = "anomaly"
    /\ FlagOf(<<3, 10, 12, 8, 11, 9>>) = "drop"


\* a trend command with a day count and names, one of them not registered
TrendWithUnknown(cmd) ==
    LET parts == split(cmd) IN
    /\ Len(parts) >= 3
    /\ parts[1] = W_trend
    /\ \E i \in 3..Len(parts) : \A j \in 1..Len(servers) : servers[j].name # parts[i]

\* C15: a trend command that names a server that is not registered draws no
\* series and saves no file, not even for the names that are registered, and
\* leaves the store and the running flag unchanged.
C15_TrendRejectedAsWhole ==
    [][ (Executes /\ TrendWithUnknown(current_cmd)) =>
          /\ out'.kind \in {"no_such_server", "value_error"}
          /\ StoreUnchanged
          /\ running' = running
      ]_vars

\* C15's case: trend 1 a b with a registered and b not: rejected, b reported
C15_Witness ==
    /\ out.kind = "no_such_server"
    /\ out.rows = << <<"b">> >>
    /\ <<"a">> \in ServerNames(servers)
    /\ JoinByName(servers, stats, <<"a">>) # <<>>


\* a command of the help text with a wrong number of arguments or a day count
\* that is not an integer: add takes 2 arguments, remove and delete 1, report
\* at most 1 (the day count), trend a day count and at least 1 name
Malformed(cmd) ==
    LET parts == split(cmd) IN
    /\ parts # <<>>
    /\ \/ parts[1] = W_add /\ Len(parts) # 3
       \/ parts[1] \in { W_remove, W_delete } /\ Len(parts) # 2
       \/ parts[1] = W_report /\ (Len(parts) > 2 \/ (Len(parts) = 2 /\ ~IsInt(parts[2])))
       \/ parts[1] = W_trend /\ (Len(parts) < 3 \/ ~IsInt(parts[2]))

\* C16: executing a malformed command reports the error (the usage or the
\* integer message), leaves the store unchanged and the running flag up, and
\* the drain goes on with the next queued command.
C16_MalformedIsReported ==
    [][ (Executes /\ Malformed(current_cmd)) =>
          /\ out'.kind \in {"usage", "value_error"}
          /\ StoreUnchanged
          /\ running' = running
          /\ pc' = "drain"
      ]_vars


\* collect_data is called: a round begins, or (no server) the marker moves
PollFires == pc' = "collect_loop" \/ last_collect' # last_collect

\* C17: the poll test of a tick calls collect_data if and only if at least
\* interval seconds have passed since last_collect, which is the start of the
\* loop until the first call and the end of the latest call afterwards; so no
\* sample is taken before interval seconds have passed since the start, and the
\* samples of two rounds (those of one server, and those of the round in
\* progress against the earlier ones) are at least interval seconds apart.
C17_PollSpacing ==
    /\ [][ (pc = "collect" /\ LoopStep /\ pc' # "stopped") =>
              /\ PollFires <=> clock - last_collect >= interval
              /\ ~PollFires =>
                    (pc' = "report" /\ stats' = stats /\ last_collect' = last_collect)
          ]_vars
    /\ [][ (pc' # "stopped" /\ last_collect' # last_collect) =>
              (last_collect' = clock' /\ pc \in {"collect", "collect_loop"} /\ pc' = "report")
          ]_vars
    /\ [](pc # "stopped" =>
             (last_collect = started \/ last_collect - started >= interval))
    /\ [](\A i \in 1..Len(stats) : stats[i].ts - utc(started) >= interval)
    /\ [](\A i, j \in 1..Len(stats) :
             (i < j /\ stats[i].server_id = stats[j].server_id) =>
                 stats[j].ts - stats[i].ts >= interval)
    /\ []((round.active /\ pc \in {"collect_loop", "report"}) =>
             \A i \in 1..Len(round.before) : \A j \in (Len(round.before) + 1)..Len(stats) :
                 stats[j].ts - stats[i].ts >= interval)

\* C17's case: the loop started interval seconds before 07:55 and polled at
\* 07:55 and again at 08:00, exactly interval seconds later
C17_Witness ==
    /\ Len(stats) = 2
    /\ stats[1].ts = utc(started) + interval
    /\ stats[2].ts = stats[1].ts + interval

\* a step of the input thread: one line is appended at the tail of the queue
Enqueues ==
    /\ Len(cmd_queue') = Len(cmd_queue) + 1
    /\ SubSeq(cmd_queue', 1, Len(cmd_queue)) = cmd_queue

\* C18: the drain of a tick ends, and the poll, report, cleanup and anomaly
\* checks begin, only when the queue is empty; the queue changes only by the
\* input thread appending a line at the tail, which touches neither the store
\* nor the flag, or by the drain taking the line at the head; the line taken is
\* the one executed next, unless an interrupt stops the loop; outside the drain
\* no step of the loop changes the servers or the flag.
C18_DrainBeforeChecks ==
    /\ [](pc = "execute" <=> current_cmd # <<>>)
    /\ [][ (pc = "drain" /\ LoopStep /\ pc' \notin {"drain", "execute", "stopped"}) =>
              (cmd_queue = <<>> /\ pc' = "collect")
          ]_vars
    /\ [][ cmd_queue' # cmd_queue =>
              \/ /\ Enqueues
                 /\ StoreUnchanged /\ running' = running /\ pc' = pc
                 /\ current_cmd' = current_cmd
              \/ /\ pc = "drain" /\ pc' = "execute"
                 /\ cmd_queue # <<>>
                 /\ cmd_queue' = Tail(cmd_queue)
                 /\ current_cmd' = Head(cmd_queue)
                 /\ StoreUnchanged /\ running' = running
          ]_vars
    /\ [][ (pc = "execute" /\ LoopStep) =>
              \/ pc' = "stopped"
              \/ /\ Executes
                 /\ execute_command(current_cmd)
                 /\ cmd_queue' = cmd_queue
          ]_vars
    /\ [][ (pc # "execute" /\ LoopStep /\ pc' # "stopped") =>
              (servers' = servers /\ nextId' = nextId /\ running' = running)
          ]_vars

\* C18's case: the tick began with two lines queued, remove a has been executed,
\* the second line waits at the head and the line typed since is behind it
C18_Witness ==
    /\ pc = "drain"
    /\ Len(cmd_queue) = 2
    /\ typed = 1
    /\ out.kind = "removed"

\* C19: whenever the input thread completes a line, the queue exists: the
\* thread is never ended by a put on a queue that is not there yet.
C19_QueueBeforeFirstLine ==
    input_thread # "dead"

\* C20: once exit has been executed no command is executed: the drain takes a
\* command from the queue only while the running flag is up.
C20_NothingRunsAfterExit ==
    [][ Executes => running ]_vars


===========================================================================
